---- MODULE Spec2Model ----
(***************************************************************************)
(* SIGMA: the menu / loading state machine of backend/Game/main.py and of  *)
(* backend/Game/engine.py, with the loading animations of                  *)
(* backend/Game/loading_animations.py.                                     *)
(*                                                                         *)
(* One behaviour is one run of one GameEngine: `variant` says which file   *)
(* the engine comes from.  A step is one event taken from the pygame event *)
(* queue by the loop that is polling it (handle_events, confirm_exit,      *)
(* show_mission_start), the remainder of one pass of the run loop          *)
(* (update, draw, loop test), or the millisecond clock moving on.          *)
(*                                                                         *)
(* `variant` "anim" is one loading animation driven through its own        *)
(* interface (construction, start, update at clock readings); "sound" is   *)
(* one SoundManager of backend/Game/sounds.py with the pygame mixer, a     *)
(* step being one call on it or a sound that ends; "load" is the sound     *)
(* table of a SoundManager filled by load_sound, with the files of         *)
(* assets/sounds; "fetch" is the construction of a GameEngine, which reads  *)
(* the mission table through Database/mission_store.py.                    *)
(***************************************************************************)
EXTENDS Integers, Sequences, FiniteSets, TLC

\* ------------------------------------------------------------------ bounds
\* Mission ids the mission table may hold (rows come back ORDER BY id ASC).
MaxId == 4
\* Mission ids of the table in the behaviours checked for liveness.
LiveMaxId == 2
\* The clock (pygame.time.get_ticks) moves in steps of TickMs, MaxTicks times.
TickMs == 500
MaxTicks == 10
\* update() calls followed on one animation.
MaxCalls == 3
\* Sine, noise and ramp values are taken in steps of 1/Levels.
Levels == 2

\* ------------------------------------------------------- program constants
\* GameEngine.__init__(width=800, height=600), main.py
Width == 800
Height == 600
\* draw_mission_list layout, main.py
MissionHeight == 80
MissionSpacing == 20
MaxVisible == 5
ListMargin == 300
\* durations of the animations, loading_animations.py
BaseDuration == 3000
HackingDuration == 3500
DownloadDuration == 4000
\* HackingAnimation: stream speed, length and first y; pixels per character;
\* brightness of the head, of the dimmest character, and the step between two
\* characters.
MinSpeed == 2
MaxSpeed == 5
MinLength == 5
MinStartY == 0 - 100
CharHeight == 20
HeadBrightness == 255
MinBrightness == 50
BrightnessStep == 30
\* DownloadAnimation: number of files, milliseconds between two advances of
\* file_progress, and the advance (uniform(0.05, 0.15)) in hundredths.
FileCount == 5
FileUpdateMs == 100
MinFileStep == 5
MaxFileStep == 15
FileDone == 100
\* sounds.py: the mixer's channels, the music channel, the first channel
\* set_volumes takes for an effects channel, the channel play falls back to,
\* and the volumes in hundredths (sfx_volume 0.7; 1.0 is full volume).
NumChannels == 16
MusicChannel == 0
FirstSfxChannel == 2
FallbackChannel == 2
MusicVolume == 60
SfxVolume == 70
AmbientVolume == 40
FullVolume == 100
\* The volume of the track "menu" and of the other music tracks, and the
\* default fade of play_music and stop_music in milliseconds.
MenuTrackVolume == 60
TrackVolume == 50
DefaultFade == 1000
\* engine.py: frames of the loading screen and of the gameplay screen
LoadingFrames == 180
MissionDuration == 300

MaxClock == MaxTicks * TickMs
\* Confirm is enumerated only while the clock has room for a whole animation.
LatestStart == MaxClock - DownloadDuration

None == <<>>
Some(x) == <<x>>
Min(a, b) == IF a < b THEN a ELSE b
Max(a, b) == IF a > b THEN a ELSE b

\* generated waveforms, sounds.py
SampleRate == 44100
\* the amplitude 1.0 in fixed point, and the 0.99 audio is clipped to
Unit == 10000
ClipLimit == 9900
\* a scale that fits unsigned 16-bit samples only
SampleScaleUnsigned == 2 * 32767 + 1
\* (stereo * 32767).astype(numpy.int16)
SampleScale == 32767
\* press_len = random.randint(130, 400)
MinPressLen == 130
MaxPressLen == 400

\* ------------------------------------------------------------------ inputs
\* Key codes of KEYDOWN events; K_UNKNOWN is pygame's key code 0.
Keys == {"K_UP", "K_DOWN", "K_RETURN", "K_ESCAPE", "K_m", "K_y", "K_n", "K_a",
         "K_UNKNOWN"}
\* An event of the queue: a KEYDOWN with its key, or the window's QUIT.
Events == Keys \cup {"QUIT"}

\* Python truthiness of event.key (an int): only key code 0 is false.
Truthy(key) == key # "K_UNKNOWN"

\* The "type" key of a mission dict may be absent.
Missing == "<missing>"
MissionTypes == <<"download", Missing, "decrypt", "DOWNLOAD", "hack">>
\* The mission table: the row with id i, as the dict fetch_all_missions builds.
TypeOfId(i) == MissionTypes[((i - 1) % Len(MissionTypes)) + 1]
Row(i) == [id |-> i, type |-> TypeOfId(i)]

RECURSIVE Ascending(_, _)
\* The rows with ids in S, lowest id first, ids above lo.
Ascending(S, lo) ==
    IF S = {} THEN <<>>
    ELSE LET i == CHOOSE x \in S : \A y \in S : x <= y
         IN  <<Row(i)>> \o Ascending(S \ {i}, i)

\* What fetch_all_missions returns: the rows in ascending id order, or [] when
\* the query fails.
fetch_all_missions == {Ascending(S, 0) : S \in SUBSET (1..MaxId)}

VARIABLES
    variant,            \* "main" (main.py) or "engine" (engine.py)
    missions,           \* self.missions
    selected_index,     \* self.selected_index
    state,              \* self.state
    running,            \* self.running
    current_mission,    \* main.py self.current_mission (None or Some(mission))
    loading_animation,  \* main.py self.loading_animation (None or Some(animation))
    muted,              \* main.py self.sound_manager.muted
    loading_counter,    \* engine.py self.loading_counter
    mission_timer,      \* engine.py self.mission_timer
    mission_outcome,    \* engine.py self.mission_outcome
    clock,              \* pygame.time.get_ticks()
    pc,                 \* which loop is polling events: "run", "confirm_exit",
                        \* "confirm_exit_done", "mission_start",
                        \* "mission_start_done"; or "exited", "crashed"
    ret,                \* where show_mission_start returns to: "events" or "draw"
    lookups,            \* indices k of the reads self.missions[k] of the last step
    trail,              \* the up/down key-downs handled in MENU since trail_start
    trail_start,        \* selected_index before the first key-down of trail
    decor,              \* the subclass fields of the animation (streams; files)
    calls,              \* update() calls made on the animation
    returned,           \* what the last call returned (None before any call)
    mixer,              \* SoundManager's sound table and the mixer's channels
    store               \* the mission database (None once the engine is built)

vars == <<variant, missions, selected_index, state, running, current_mission,
          loading_animation, muted, loading_counter, mission_timer,
          mission_outcome, clock, pc, ret, lookups, trail, trail_start,
          decor, calls, returned, mixer, store>>

gameVars == <<selected_index, state, running, current_mission,
              loading_animation, muted>>
engineVars == <<loading_counter, mission_timer, mission_outcome>>
\* What the game loops leave alone: they are followed through the fields
\* above, the animation's own interface through these.
callVars == <<decor, calls, returned, mixer>>
\* What a call on an animation leaves alone.
loopVars == <<missions, selected_index, state, running, muted, engineVars, ret,
              lookups, trail, trail_start>>

\* ------------------------------------------------------ loading animations
\* The type tag compared as it is written.
lower_identity(s) == s

\* str.lower() on the type tags in use.
lower(s) == IF s \in {"DOWNLOAD", "Download"} THEN "download" ELSE s

\* LoadingAnimation.__init__ and the subclasses' __init__: progress is the
\* fraction num/den (0.0 at construction).
LoadingAnimation ==
    [cls |-> "LoadingAnimation", duration |-> BaseDuration,
     progress |-> [num |-> 0, den |-> 1], complete |-> FALSE, start_time |-> 0]
HackingAnimation ==
    [cls |-> "HackingAnimation", duration |-> HackingDuration,
     progress |-> [num |-> 0, den |-> 1], complete |-> FALSE, start_time |-> 0]
\* A download animation left with the base class's duration.
DownloadAnimation_default_duration ==
    [cls |-> "DownloadAnimation", duration |-> BaseDuration,
     progress |-> [num |-> 0, den |-> 1], complete |-> FALSE, start_time |-> 0]
DownloadAnimation ==
    [cls |-> "DownloadAnimation", duration |-> DownloadDuration,
     progress |-> [num |-> 0, den |-> 1], complete |-> FALSE, start_time |-> 0]

get_animation_for_mission(mission_type) ==
    LET animation_type ==
            IF lower(mission_type) \in {"hack", "download"}
            THEN lower(mission_type) ELSE "hack"
    IN  IF animation_type = "download" THEN DownloadAnimation
        ELSE HackingAnimation

\* start without the clock reading: start_time keeps its constructor value.
start_without_clock(anim, now) ==
    [anim EXCEPT !.progress = [num |-> 0, den |-> 1], !.complete = FALSE]

\* LoadingAnimation.start at clock reading now.
start(anim, now) ==
    [anim EXCEPT !.progress = [num |-> 0, den |-> 1],
                 !.complete = FALSE,
                 !.start_time = now]

\* The fraction of the duration still to go.
Progress_remaining(elapsed, duration) ==
    IF elapsed >= duration THEN [num |-> 0, den |-> 1]
    ELSE [num |-> duration - elapsed, den |-> duration]
\* elapsed / duration without the min(1.0, ...).
Progress_unclamped(elapsed, duration) == [num |-> elapsed, den |-> duration]

\* min(1.0, elapsed / duration) as a fraction.
Progress(elapsed, duration) ==
    IF elapsed >= duration THEN [num |-> 1, den |-> 1]
    ELSE [num |-> elapsed, den |-> duration]

\* update that advances progress and never sets self.complete.
update_without_complete(anim, now) ==
    IF anim.complete THEN anim
    ELSE [anim EXCEPT
              !.progress = Progress(now - anim.start_time, anim.duration)]

\* LoadingAnimation.update at clock reading now (the subclasses call it and
\* return self.complete).
update(anim, now) ==
    IF anim.complete THEN anim
    ELSE LET p == Progress(now - anim.start_time, anim.duration)
         IN  [anim EXCEPT !.progress = p, !.complete = (p.num >= p.den)]

\* The subclass fields after __init__.  One stream stands for self.streams
\* (every stream is set up and updated by the same code, on its own); the
\* random draws are taken at the ends of their ranges.
Repeat(c, n) == [i \in 1..n |-> c]
setup_streams ==
    {[x |-> x, y |-> y, speed |-> speed, chars |-> Repeat(c, MinLength),
      brightness |-> Repeat(HeadBrightness, MinLength)] :
        x \in {0, Width}, y \in {MinStartY, 0}, speed \in {MinSpeed, MaxSpeed},
        c \in {"0", "1"}}
download_files == [current_file |-> 0, file_progress |-> 0, last_update |-> 0]
\* The values the subclass fields may have after __init__ of class cls.
subclass_init(cls) ==
    IF cls = "HackingAnimation" THEN setup_streams
    ELSE IF cls = "DownloadAnimation" THEN {download_files}
    ELSE {None}

RECURSIVE Fade(_)
\* brightness[0..n-1] after the brightness loop: 255, then 30 less per
\* character, not below 50.
Fade(n) ==
    IF n = 1 THEN <<HeadBrightness>>
    ELSE LET b == Fade(n - 1)
         IN  Append(b, Max(MinBrightness, b[n - 1] - BrightnessStep))

\* HackingAnimation.update after super().update(): the stream moves down,
\* wraps below the screen, fades; one character may change.
update_streams(d) ==
    LET y1 == d.y + d.speed
        wraps == y1 > Height + Len(d.chars) * CharHeight
        moved == IF wraps
                 THEN {[d EXCEPT !.y = 0 - Len(d.chars) * CharHeight, !.x = x] :
                           x \in {0, Width}}
                 ELSE {[d EXCEPT !.y = y1]}
        faded == {[m EXCEPT !.brightness = Fade(Len(m.brightness))] : m \in moved}
    IN  faded \cup
        {[f EXCEPT !.chars[idx] = c] :
             f \in faded, idx \in {1, Len(d.chars)}, c \in {"0", "1"}}

\* DownloadAnimation.update after super().update(): every 100 ms the file's
\* progress advances, and a finished file gives way to the next one.
update_files(d, now) ==
    IF now - d.last_update > FileUpdateMs
    THEN {LET fp == d.file_progress + step
          IN  IF fp >= FileDone
              THEN [current_file |-> Min(d.current_file + 1, FileCount - 1),
                    file_progress |-> 0, last_update |-> now]
              ELSE [current_file |-> d.current_file,
                    file_progress |-> fp, last_update |-> now] :
              step \in {MinFileStep, MaxFileStep}}
    ELSE {d}

\* The values the subclass fields may have after update() of class cls.
subclass_update(cls, d, now) ==
    IF cls = "HackingAnimation" THEN update_streams(d)
    ELSE IF cls = "DownloadAnimation" THEN update_files(d, now)
    ELSE {d}

\* ------------------------------------------------------------- main.py
\* mission.get("type", "hack")
mission_type_of(mission) ==
    IF mission.type = Missing THEN "hack" ELSE mission.type

\* draw_mission_list: the indices i of the reads self.missions[i].
visible_missions ==
    Min(MaxVisible, (Height - ListMargin) \div (MissionHeight + MissionSpacing))
\* start_index without the max(0, ...) clamp.
start_index_unclamped(sel, n) ==
    Min(sel - visible_missions \div 2, n - visible_missions)
\* a list that never scrolls
start_index_no_scroll(sel, n) == 0
start_index(sel, n) ==
    Max(0, Min(sel - visible_missions \div 2, n - visible_missions))
draw_mission_list(sel, n) ==
    LET s == start_index(sel, n)
    IN  s .. (Min(s + visible_missions, n) - 1)

\* The up/down trail after key-down `key` is handled in MENU with n missions.
Homogeneous(t) == \A i \in 1..Len(t) : t[i] = t[1]
Tracked(t, n) ==
    \/ Homogeneous(t) /\ Len(t) <= n
    \/ t \in {<<"K_DOWN", "K_UP">>, <<"K_UP", "K_DOWN">>}
Press(key) ==
    IF trail # <<>> /\ Tracked(Append(trail, key), Len(missions))
    THEN trail' = Append(trail, key) /\ UNCHANGED trail_start
    ELSE trail' = <<key>> /\ trail_start' = selected_index
NoPress == trail' = <<>> /\ trail_start' = 0

\* Navigation that forgets the wrap, or clamps at the ends of the list.
move_up_nowrap(i, n) == i - 1
move_down_clamped(i, n) == Min(i + 1, n - 1)
move_up_clamped(i, n) == Max(i - 1, 0)

\* (i + 1) % n and (i - 1) % n of Python, n > 0.
move_down(i, n) == (i + 1) % n
move_up(i, n) == (i - 1) % n

\* GameEngine.start_loading(mission)
start_loading(mission) ==
    /\ state' = "loading"
    /\ current_mission' = Some(mission)
    /\ loading_animation' =
           Some(start(get_animation_for_mission(mission_type_of(mission)), clock))

\* complete_loading that goes on to a "game" screen instead of the menu.
complete_loading_to_game(r) ==
    /\ state' = "game"
    /\ loading_animation' = None
    /\ IF current_mission # None
       THEN pc' = "mission_start" /\ ret' = r
       ELSE pc' = "run" /\ UNCHANGED ret

\* complete_loading that leaves the finished animation in place.
complete_loading_keeps_animation(r) ==
    /\ state' = "menu"
    /\ UNCHANGED loading_animation
    /\ IF current_mission # None
       THEN pc' = "mission_start" /\ ret' = r
       ELSE pc' = "run" /\ UNCHANGED ret

\* GameEngine.complete_loading, called while the events are handled
\* (r = "events") or from the update of the run loop (r = "draw").
complete_loading(r) ==
    /\ state' = "menu"
    /\ loading_animation' = None
    /\ IF current_mission # None
       THEN pc' = "mission_start" /\ ret' = r
       ELSE pc' = "run" /\ UNCHANGED ret

\* GameEngine.toggle_mute -> SoundManager.toggle_mute
toggle_mute == muted' = ~muted

\* The loop test of run after a pass: while self.running, else quit and exit.
LoopTest(r) == IF r THEN "run" ELSE "exited"

\* navigation keys that act whatever the state
menu_keys_apply_anywhere(st) == TRUE
\* elif self.state == "menu": the branch of the navigation keys
menu_keys_apply(st) == st = "menu"

\* GameEngine.handle_events of main.py: one event of the for loop.
handle_events(event) ==
    /\ variant = "main"
    /\ pc = "run"
    /\ (event = "K_RETURN" /\ state = "menu" /\ missions # <<>>)
           => clock <= LatestStart
    /\ UNCHANGED <<variant, store, callVars, missions, engineVars, clock>>
    /\ IF event = "QUIT" THEN
           /\ running' = FALSE
           /\ lookups' = {}
           /\ NoPress
           /\ UNCHANGED <<selected_index, state, current_mission,
                          loading_animation, muted, pc, ret>>
       ELSE IF event = "K_ESCAPE" THEN
           /\ pc' = "confirm_exit"
           /\ lookups' = {}
           /\ NoPress
           /\ UNCHANGED <<gameVars, ret>>
       ELSE IF menu_keys_apply(state) THEN
           IF event = "K_RETURN" THEN
               IF 0 <= selected_index /\ selected_index < Len(missions)
               THEN /\ start_loading(missions[selected_index + 1])
                    /\ lookups' = {selected_index}
                    /\ NoPress
                    /\ UNCHANGED <<selected_index, running, muted, pc, ret>>
               ELSE /\ lookups' = {}
                    /\ NoPress
                    /\ UNCHANGED <<gameVars, pc, ret>>
           ELSE IF event \in {"K_DOWN", "K_UP"} THEN
               IF Len(missions) = 0
               THEN \* ZeroDivisionError leaves handle_events and run
                    /\ pc' = "crashed"
                    /\ lookups' = {}
                    /\ NoPress
                    /\ UNCHANGED <<gameVars, ret>>
               ELSE /\ selected_index' =
                           IF event = "K_DOWN"
                           THEN move_down(selected_index, Len(missions))
                           ELSE move_up(selected_index, Len(missions))
                    /\ lookups' = {}
                    /\ Press(event)
                    /\ UNCHANGED <<state, running, current_mission,
                                   loading_animation, muted, pc, ret>>
           ELSE IF event = "K_m" THEN
               /\ toggle_mute
               /\ lookups' = {}
               /\ NoPress
               /\ UNCHANGED <<selected_index, state, running, current_mission,
                              loading_animation, pc, ret>>
           ELSE
               /\ lookups' = {}
               /\ NoPress
               /\ UNCHANGED <<gameVars, pc, ret>>
       ELSE IF state = "loading" /\ Truthy(event) THEN
           /\ complete_loading("events")
           /\ lookups' = {}
           /\ NoPress
           /\ UNCHANGED <<selected_index, running, current_mission, muted>>
       ELSE
           /\ lookups' = {}
           /\ NoPress
           /\ UNCHANGED <<gameVars, pc, ret>>

\* confirm_exit that takes every key other than Y for a no.
confirm_exit_any_key_closes(event) ==
    /\ variant = "main"
    /\ pc \in {"confirm_exit", "confirm_exit_done"}
    /\ pc' = IF event \in {"QUIT", "K_y"} THEN "exited" ELSE "confirm_exit_done"
    /\ lookups' = {}
    /\ UNCHANGED <<variant, store, callVars, missions, gameVars, engineVars, clock, ret, trail,
                   trail_start>>

\* GameEngine.confirm_exit: one event of its for loop.  "confirm_exit_done" is
\* the loop after N set confirming = False, with events of the batch left.
confirm_exit(event) ==
    /\ variant = "main"
    /\ pc \in {"confirm_exit", "confirm_exit_done"}
    /\ pc' = IF event \in {"QUIT", "K_y"} THEN "exited"
             ELSE IF event = "K_n" THEN "confirm_exit_done"
             ELSE pc
    /\ lookups' = {}
    /\ UNCHANGED <<variant, store, callVars, missions, gameVars, engineVars, clock, ret, trail,
                   trail_start>>

\* confirm_exit returns None to handle_events, which continues with its loop.
confirm_exit_return ==
    /\ variant = "main"
    /\ pc = "confirm_exit_done"
    /\ pc' = "run"
    /\ lookups' = {}
    /\ UNCHANGED <<variant, store, callVars, missions, gameVars, engineVars, clock, ret, trail,
                   trail_start>>

\* GameEngine.show_mission_start: one event of its for loop.
\* "mission_start_done" is the loop after waiting = False, with events of the
\* batch left.
show_mission_start(event) ==
    /\ variant = "main"
    /\ pc \in {"mission_start", "mission_start_done"}
    /\ pc' = "mission_start_done"
    /\ running' = IF event \in {"QUIT", "K_ESCAPE"} THEN FALSE ELSE running
    /\ lookups' = {}
    /\ UNCHANGED <<variant, store, callVars, missions, selected_index, state, current_mission,
                   loading_animation, muted, engineVars, clock, ret, trail,
                   trail_start>>

\* show_mission_start returns: to the for loop of handle_events, or to the
\* draw and the loop test of run.
show_mission_start_return ==
    /\ variant = "main"
    /\ pc = "mission_start_done"
    /\ IF ret = "events"
       THEN pc' = "run" /\ lookups' = {}
       ELSE /\ pc' = LoopTest(running)
            /\ lookups' = IF state = "menu"
                          THEN draw_mission_list(selected_index, Len(missions))
                          ELSE {}
    /\ UNCHANGED <<variant, store, callVars, missions, gameVars, engineVars, clock, ret, trail,
                   trail_start>>

\* GameEngine.run of main.py after handle_events: update, draw, loop test.
run ==
    /\ variant = "main"
    /\ pc = "run"
    /\ UNCHANGED <<variant, store, callVars, missions, selected_index, running, current_mission,
                   muted, engineVars, clock, trail, trail_start>>
    /\ IF state = "loading" /\ loading_animation # None THEN
           LET anim == update(loading_animation[1], clock)
           IN  IF anim.complete
               THEN /\ complete_loading("draw")
                    /\ lookups' = {}
               ELSE /\ loading_animation' = Some(anim)
                    /\ pc' = LoopTest(running)
                    /\ lookups' = {}
                    /\ UNCHANGED <<state, ret>>
       ELSE
           /\ pc' = LoopTest(running)
           /\ lookups' = IF state = "menu"
                         THEN draw_mission_list(selected_index, Len(missions))
                         ELSE {}
           /\ UNCHANGED <<state, loading_animation, ret>>

\* ------------------------------------------------------------- engine.py
\* RESULT left on any key-down.
result_keys_any == Keys

\* The keys that leave RESULT: event.key in [K_RETURN, K_ESCAPE].
result_keys == {"K_RETURN", "K_ESCAPE"}

\* GameEngine.handle_events of engine.py: one event of the for loop.
engine_handle_events(event) ==
    /\ variant = "engine"
    /\ pc = "run"
    /\ lookups' = {}
    /\ UNCHANGED <<variant, store, callVars, missions, current_mission, loading_animation, muted,
                   mission_timer, mission_outcome, clock, ret>>
    /\ IF event = "QUIT" THEN
           /\ running' = FALSE
           /\ NoPress
           /\ UNCHANGED <<selected_index, state, loading_counter, pc>>
       ELSE IF state = "menu" THEN
           IF event = "K_ESCAPE" THEN
               /\ running' = FALSE
               /\ NoPress
               /\ UNCHANGED <<selected_index, state, loading_counter, pc>>
           ELSE IF event \in {"K_UP", "K_DOWN"} THEN
               IF Len(missions) = 0
               THEN \* ZeroDivisionError leaves handle_events and run
                    /\ pc' = "crashed"
                    /\ NoPress
                    /\ UNCHANGED <<selected_index, state, running,
                                   loading_counter>>
               ELSE /\ selected_index' =
                           IF event = "K_DOWN"
                           THEN move_down(selected_index, Len(missions))
                           ELSE move_up(selected_index, Len(missions))
                    /\ Press(event)
                    /\ UNCHANGED <<state, running, loading_counter, pc>>
           ELSE IF event = "K_RETURN" THEN
               /\ state' = "loading"
               /\ loading_counter' = 0
               /\ NoPress
               /\ UNCHANGED <<selected_index, running, pc>>
           ELSE
               /\ NoPress
               /\ UNCHANGED <<selected_index, state, running, loading_counter,
                              pc>>
       ELSE IF state = "result" /\ event \in result_keys THEN
           /\ state' = "menu"
           /\ NoPress
           /\ UNCHANGED <<selected_index, running, loading_counter, pc>>
       ELSE
           /\ NoPress
           /\ UNCHANGED <<selected_index, state, running, loading_counter, pc>>

\* GameEngine.update of engine.py, followed by draw and the loop test of run.
engine_update ==
    /\ variant = "engine"
    /\ pc = "run"
    /\ pc' = LoopTest(running)
    /\ lookups' = {}
    /\ UNCHANGED <<variant, store, callVars, missions, selected_index, running, current_mission,
                   loading_animation, muted, clock, ret, trail, trail_start>>
    /\ IF state = "loading" THEN
           /\ loading_counter' = loading_counter + 1
           /\ IF loading_counter + 1 > LoadingFrames
              THEN /\ state' = "gameplay"
                   /\ mission_timer' = 0
                   /\ mission_outcome' = "None"
              ELSE UNCHANGED <<state, mission_timer, mission_outcome>>
       ELSE IF state = "gameplay" THEN
           /\ mission_timer' = mission_timer + 1
           /\ IF mission_timer + 1 >= MissionDuration
              THEN /\ state' = "result"
                   /\ mission_outcome' \in {"success", "failure"}
              ELSE UNCHANGED <<state, mission_outcome>>
           /\ UNCHANGED loading_counter
       ELSE UNCHANGED <<state, engineVars>>

\* ------------------------------------------------------------------ clock
\* pygame.time.get_ticks moves on, whichever loop is running.
Tick ==
    /\ variant = "main"
    /\ pc \notin {"exited", "crashed"}
    /\ clock + TickMs <= MaxClock
    /\ clock' = clock + TickMs
    /\ UNCHANGED <<variant, store, callVars, missions, gameVars, engineVars, pc, ret, lookups,
                   trail, trail_start>>

\* ------------------------------------------- one animation, call by call
\* The clock readings at which an animation is started and updated: around
\* each duration after TickMs.
AnimReadings ==
    {0, 1, TickMs} \cup
    {TickMs + d + k : d \in {BaseDuration, HackingDuration, DownloadDuration},
                      k \in {0 - 1, 0, 1}}

\* The animation object is built: by the factory for the mission's type tag
\* as start_loading does, or as a plain LoadingAnimation.
anim_construct ==
    /\ variant = "anim"
    /\ pc = "new"
    /\ pc' = "constructed"
    /\ LET anim == IF current_mission = None THEN LoadingAnimation
                   ELSE get_animation_for_mission(
                            mission_type_of(current_mission[1]))
       IN  /\ loading_animation' = Some(anim)
           /\ decor' \in subclass_init(anim.cls)
    /\ UNCHANGED <<variant, store, loopVars, current_mission, clock, calls, returned,
                   mixer>>

\* animation.start()
anim_start ==
    /\ variant = "anim"
    /\ pc = "constructed"
    /\ pc' = "started"
    /\ loading_animation' = Some(start(loading_animation[1], clock))
    /\ UNCHANGED <<variant, store, loopVars, current_mission, clock, callVars>>

\* animation.update() of the object's class
anim_update ==
    /\ variant = "anim"
    /\ pc = "started"
    /\ calls < MaxCalls
    /\ calls' = calls + 1
    /\ LET anim == update(loading_animation[1], clock)
       IN  /\ loading_animation' = Some(anim)
           /\ decor' \in subclass_update(anim.cls, decor, clock)
           /\ returned' = Some(anim.complete)
    /\ UNCHANGED <<variant, store, loopVars, current_mission, clock, pc, mixer>>

\* pygame.time.get_ticks moves on between two calls.
anim_clock ==
    /\ variant = "anim"
    /\ pc # "new"
    /\ clock' \in {r \in AnimReadings : r > clock}
    /\ UNCHANGED <<variant, store, loopVars, current_mission, loading_animation, pc,
                   callVars>>

\* ------------------------------------------------- sounds.py: load_sound
\* Arguments of load_sound: names, and generated default buffers (or None).
LoadNames == {"select", "confirm", "error"}
Defaults == {"None", "beep", "glitch"}
\* assets/sounds/<name>.wav: not there, a file pygame loads, or one it does not.
FileStates == {"absent", "wav", "corrupt"}
\* A name that is not a key of self.sounds.
Unregistered == "<unregistered>"
\* The buffer pygame.mixer.Sound(sound_path) gives for a loadable file.
FromFile == "file"

\* load_sound that looks at the default first and at the file only without one.
registered_default_first(table, files, name, default) ==
    IF default # "None"
    THEN [sounds |-> [table EXCEPT ![name] = default], value |-> default]
    ELSE IF files[name] = "wav"
    THEN [sounds |-> [table EXCEPT ![name] = FromFile], value |-> FromFile]
    ELSE [sounds |-> table, value |-> "None"]

\* SoundManager.load_sound(name, default_sound) on the table `table` with
\* the files `files`: the table afterwards and the value returned.  A file
\* that does not load raises inside the try and is reported.
registered(table, files, name, default) ==
    IF files[name] = "wav"
    THEN [sounds |-> [table EXCEPT ![name] = FromFile], value |-> FromFile]
    ELSE IF default # "None"
    THEN [sounds |-> [table EXCEPT ![name] = default], value |-> default]
    ELSE [sounds |-> table, value |-> "None"]

\* SoundManager.load_sound(name, default_sound)
load_sound(name, default) ==
    /\ variant = "load"
    /\ pc = "run"
    /\ LET r == registered(mixer.sounds, mixer.files, name, default)
       IN  /\ mixer' = [mixer EXCEPT !.sounds = r.sounds]
           /\ returned' = Some(r.value)
    /\ UNCHANGED <<variant, store, loopVars, current_mission, loading_animation, clock,
                   pc, decor, calls>>

\* ------------------------------------------------------------- sounds.py
\* What a generator returns: its buffer, named after the generator, or None
\* from the two whose last line is `return make_sound(...).set_volume(0.3)`
\* (Sound.set_volume returns None).
generated(generator) ==
    IF generator \in {"download", "decrypt"} THEN "None" ELSE generator

\* The load_sound calls of setup_sounds, in order: the name registered and
\* the generator whose result is the default.
setup_sounds_calls ==
    << <<"select", "beep">>, <<"confirm", "beep">>, <<"back", "beep">>,
       <<"error", "error">>, <<"typing", "keyboard">>, <<"glitch", "glitch">>,
       <<"hack_start", "glitch">>, <<"download", "download">>,
       <<"decrypt", "decrypt">>, <<"success", "success">>,
       <<"failure", "failure">>, <<"keyboard", "keyboard">> >>

setup_names == {setup_sounds_calls[k][1] : k \in DOMAIN setup_sounds_calls}

\* self.sounds after the calls of setup_sounds from the k-th on
RECURSIVE setup_sounds(_, _, _)
setup_sounds(table, files, k) ==
    IF k > Len(setup_sounds_calls) THEN table
    ELSE setup_sounds(registered(table, files, setup_sounds_calls[k][1],
                                 generated(setup_sounds_calls[k][2])).sounds,
                      files, k + 1)

\* The keys of self.sounds once a SoundManager is constructed with no file
\* in assets/sounds.
registered_sounds ==
    LET table == setup_sounds([name \in setup_names |-> Unregistered],
                              [name \in setup_names |-> "absent"], 1)
    IN  {name \in setup_names : table[name] # Unregistered}
\* Arguments of play: names (one is not registered), and volumes (the
\* default None, 0.5, and a value that is not a number).
SoundNames == {"select", "download", "nosuch"}
VolumeArgs == {"None", "0.5", "'loud'"}
\* A volume argument in hundredths; None stands for one that is not a number.
hundredths(volume) == IF volume = "0.5" THEN Some(50) ELSE None

\* The channels followed one by one; the channels above them are followed by
\* how many of them are busy, with sounds that last.
LowChannels == 0..FirstSfxChannel
High == FirstSfxChannel + 1
HighChannels == NumChannels - High
\* What a call hands back, as Python shows it.
Channel(c) ==
    <<"Channel(0)", "Channel(1)", "Channel(2)", "Channel(3..15)">>[c + 1]
bool(b) == IF b THEN "True" ELSE "False"
Idle == [playing |-> None, volume |-> FullVolume]

\* setup_music: the SoundTrack of each music track (volume, loop).
music_tracks ==
    [name \in {"menu", "hacking", "tense", "success"} |->
         [volume |-> IF name = "menu" THEN MenuTrackVolume ELSE TrackVolume,
          loop |-> name # "success"]]
\* Arguments of play_music and stop_music: track names (one is unknown) and
\* fades in milliseconds.
TrackNames == {"menu", "success", "nosuch"}
Fades == {0, DefaultFade}

\* SoundManager.__init__ on a freshly initialised mixer.
SoundManager ==
    [sounds |-> [name \in registered_sounds |-> FullVolume],
     music_sounds |-> [name \in DOMAIN music_tracks |-> FullVolume],
     music_volume |-> MusicVolume,
     sfx_volume |-> SfxVolume,
     ambient_volume |-> AmbientVolume,
     current_music |-> None,
     current_ambient |-> None,
     low |-> [c \in LowChannels |-> Idle],
     high |-> 0]

\* pygame.mixer.find_channel(force=False): the lowest idle channel (High
\* for one of the channels above the low ones), or None.
find_channel(m) ==
    IF \E c \in LowChannels : m.low[c].playing = None
    THEN Some(CHOOSE c \in LowChannels :
                  /\ m.low[c].playing = None
                  /\ \A b \in LowChannels : m.low[b].playing = None => c <= b)
    ELSE IF m.high < HighChannels THEN Some(High)
    ELSE None

\* channel.play(sound, loops) on channel c: what it was playing stops, and
\* the channel's volume is reset.
channel_play(m, c, name, loop) ==
    IF c = High
    THEN [m EXCEPT !.high = @ + 1]
    ELSE [m EXCEPT !.low[c] = [playing |-> Some([name |-> name, loop |-> loop]),
                               volume |-> FullVolume]]

\* silenced without the test of self.muted.
silenced_unless_unknown(name) == name \notin DOMAIN mixer.sounds
\* The test that makes play return at once.
silenced(name) == muted \/ name \notin DOMAIN mixer.sounds

\* An exception that is not caught ends the process.
except_nothing(p) == "crashed"
\* except Exception: the message is printed and play goes on to its end.
except_Exception(p) == p

\* SoundManager.play(name, volume, loop); ok says whether the mixer calls
\* go through without raising.
play(name, volume, loop, ok) ==
    /\ variant = "sound"
    /\ pc = "run"
    /\ UNCHANGED <<variant, store, loopVars, current_mission, loading_animation, clock,
                   decor, calls>>
    /\ IF silenced(name) THEN
           /\ returned' = Some("None")
           /\ UNCHANGED <<mixer, pc>>
       ELSE IF volume # "None" /\ hundredths(volume) = None THEN
           \* sound.set_volume raises TypeError
           /\ pc' = except_Exception(pc)
           /\ returned' = Some("None")
           /\ UNCHANGED mixer
       ELSE
           LET v == IF volume # "None" THEN hundredths(volume)[1]
                    ELSE mixer.sfx_volume
               m == [mixer EXCEPT !.sounds[name] = v]
               found == find_channel(m)
               channel == IF found = None THEN FallbackChannel ELSE found[1]
           IN  IF ~ok
               THEN \* pygame.error from the mixer
                    /\ pc' = except_Exception(pc)
                    /\ returned' = Some("None")
                    /\ mixer' = m
               ELSE /\ mixer' = channel_play(m, channel, name, loop)
                    /\ returned' = Some(Channel(channel))
                    /\ UNCHANGED pc

\* A product of two volumes given in hundredths.
scaled(a, b) == (a * b) \div FullVolume

\* SoundManager.set_volumes(music_volume, sfx_volume, ambient_volume) as
\* toggle_mute calls it, with the manager's own levels: the levels are kept,
\* the music channel gets the level of the current track and the busy
\* channels from FirstSfxChannel on get the sfx volume; there is never an
\* ambient track.
set_volumes(m) ==
    [m EXCEPT !.low =
        [c \in LowChannels |->
            IF c = MusicChannel /\ m.current_music # None
            THEN [m.low[c] EXCEPT !.volume =
                      scaled(m.music_volume,
                             music_tracks[m.current_music[1]].volume)]
            ELSE IF c >= FirstSfxChannel /\ m.low[c].playing # None
            THEN [m.low[c] EXCEPT !.volume = m.sfx_volume]
            ELSE m.low[c]]]

\* SoundManager.toggle_mute on the manager whose muted flag is mu and whose
\* other state is m: the flag, the state and the value returned.
toggled(mu, m) ==
    [muted |-> ~mu,
     mixer |-> IF ~mu
               THEN [m EXCEPT !.low = [c \in LowChannels |->
                                           [m.low[c] EXCEPT !.volume = 0]]]
               ELSE set_volumes(m),
     value |-> ~mu]

\* SoundManager.toggle_mute
SoundManager_toggle_mute ==
    /\ variant = "sound"
    /\ pc = "run"
    /\ muted' = toggled(muted, mixer).muted
    /\ mixer' = toggled(muted, mixer).mixer
    /\ returned' = Some(bool(toggled(muted, mixer).value))
    /\ UNCHANGED <<variant, store, missions, selected_index, state, running,
                   engineVars, ret, lookups, trail, trail_start,
                   current_mission, loading_animation, clock, pc, decor, calls>>

\* channel.fadeout(ms) with ms > 0: what the channel plays is on its way out
\* and ends by itself.
fadeout(ch) ==
    IF ch.playing = None THEN ch
    ELSE [ch EXCEPT !.playing = Some([ch.playing[1] EXCEPT !.loop = FALSE])]

\* SoundManager.stop_music(fade_out) on the manager state m.
stopped_music(m, fade_out) ==
    IF m.current_music = None THEN m
    ELSE [m EXCEPT !.low[MusicChannel] =
                       IF fade_out > 0 THEN fadeout(@)
                       ELSE [@ EXCEPT !.playing = None],
                   !.current_music = None]

\* play_music that does not record the track it started.
current_music_forgotten(m, track_name) == m
\* self.current_music = track
current_music_set(m, track_name) ==
    [m EXCEPT !.current_music = Some(track_name)]

\* SoundManager.play_music(track_name, fade_in); fails says which mixer call
\* raises: none ("no"), the first one after the current music is stopped
\* ("play"), or the last one of the fade-in ("fade").
play_music(track_name, fade_in, fails) ==
    /\ variant = "sound"
    /\ pc = "run"
    /\ fails = "fade" => fade_in > 0
    /\ UNCHANGED <<variant, store, loopVars, current_mission, loading_animation, clock,
                   pc, decor, calls>>
    /\ IF muted \/ track_name \notin DOMAIN music_tracks THEN
           /\ returned' = Some("False")
           /\ UNCHANGED mixer
       ELSE
           LET track == music_tracks[track_name]
               m1 == stopped_music(mixer, DefaultFade)
               m2 == [m1 EXCEPT !.music_sounds[track_name] = 0]
               m3 == channel_play(m2, MusicChannel, track_name, track.loop)
               m4 == [m3 EXCEPT !.low[MusicChannel].volume =
                                    scaled(m3.music_volume, track.volume)]
           IN  IF fails = "play" THEN
                   /\ mixer' = m1
                   /\ returned' = Some("False")
               ELSE IF fails = "fade" THEN
                   \* the channel was started again for the fade-in
                   /\ mixer' = m3
                   /\ returned' = Some("False")
               ELSE
                   /\ mixer' = current_music_set(m4, track_name)
                   /\ returned' = Some("True")

\* SoundManager.stop_music(fade_out)
stop_music(fade_out) ==
    /\ variant = "sound"
    /\ pc = "run"
    /\ mixer' = stopped_music(mixer, fade_out)
    /\ returned' = Some("None")
    /\ UNCHANGED <<variant, store, loopVars, current_mission, loading_animation, clock,
                   pc, decor, calls>>

\* A sound played once comes to its end and its channel is idle again.
channel_ends(c) ==
    /\ variant = "sound"
    /\ pc = "run"
    /\ mixer.low[c].playing # None
    /\ ~mixer.low[c].playing[1].loop
    /\ mixer' = [mixer EXCEPT !.low[c].playing = None]
    /\ UNCHANGED <<variant, store, loopVars, current_mission, loading_animation, clock,
                   pc, decor, calls, returned>>

\* --------------------------------------------- Database/mission_store.py
\* What can go wrong with the data source: nothing, psycopg2.connect fails,
\* cursor.execute fails, or a row cannot be turned into a dict.
Faults == {"none", "connect", "execute", "row"}

\* fetch_all_missions() on the database db: whether an exception leaves the
\* function, and the list returned otherwise.  get_connection prints and
\* re-raises, before the try block of fetch_all_missions is entered.
fetched_all(db) ==
    IF db.fault = "connect" THEN [raised |-> TRUE, missions |-> <<>>]
    ELSE IF db.fault # "none" THEN [raised |-> FALSE, missions |-> <<>>]
    ELSE [raised |-> FALSE, missions |-> Ascending(db.ids, 0)]

\* GameEngine.__init__ of either file: self.missions = fetch_all_missions()
GameEngine_init ==
    /\ variant = "fetch"
    /\ pc = "new"
    /\ LET r == fetched_all(store)
       IN  IF r.raised
           THEN pc' = "crashed" /\ UNCHANGED missions
           ELSE pc' = "run" /\ missions' = r.missions
    /\ UNCHANGED <<variant, store, gameVars, engineVars, clock, ret, lookups,
                   trail, trail_start, decor, calls, returned, mixer>>

\* ------------------------------------------- sounds.py: generated waveforms
\* Amplitudes are fixed-point numbers: Unit stands for 1.0.  Sine values and
\* uniform(-1, 1) noise are drawn from Bipolar, masks from BOOLEAN.
Bipolar == {(k * Unit) \div Levels : k \in (0 - Levels)..Levels}

\* int(x / b) and float products, rounded towards zero
Trunc(a, b) == IF a >= 0 THEN a \div b ELSE 0 - ((0 - a) \div b)
pct(c, x) == Trunc(c * x, 100)
times(x, y) == Trunc(x * y, Unit)

\* numpy.clip(x, lo, hi)
clip(x, lo, hi) == IF x < lo THEN lo ELSE IF x > hi THEN hi ELSE x
normalized(x) == clip(x, 0 - ClipLimit, ClipLimit)

\* numpy.linspace(a, b, num)[j]: num points, both ends included
linspace(a, b, num, j) ==
    IF num = 1 THEN a ELSE a + Trunc((b - a) * j, num - 1)

\* ndarray.astype(numpy.int16) of an integral value: the low 16 bits, signed
astype_int16(v) == ((v + 32768) % 65536) - 32768

\* int(sample_rate * seconds), seconds given in milliseconds
n_samples(ms) == (SampleRate * ms) \div 1000

\* envelope = ones(n); envelope[:attack] = linspace(0, 1, attack);
\* envelope[-release:] = linspace(1, 0, release)  -- the value at index i
envelope(n, attack, release, i) ==
    IF release > 0 /\ i >= n - release
    THEN linspace(Unit, 0, release, i - (n - release))
    ELSE IF attack > 0 /\ i < attack
    THEN linspace(0, Unit, attack, i)
    ELSE Unit

\* the envelope of _create_failure_sound, which has a decay to 0.7 as well
\* and releases from the value before the release starts
failure_envelope(n, attack, decay, release, i) ==
    LET before(j) ==
            IF decay > 0 /\ attack + decay < n /\ j >= attack /\ j < attack + decay
            THEN linspace(Unit, (7 * Unit) \div 10, decay, j - attack)
            ELSE IF attack > 0 /\ j < attack
            THEN linspace(0, Unit, attack, j)
            ELSE Unit
    IN  IF release > 0 /\ i >= n - release
        THEN linspace(before(n - release - 1), 0, release, i - (n - release))
        ELSE before(i)

\* the sample indices worth telling apart under an attack/release envelope
Indices(n, attack, release) ==
    {0, attack - 1, attack, n - release - 1, n - release, n - 1}

\* (stereo * 32767).astype(numpy.int16) for one frame <<left, right>>, with
\* what the generator returns and, for an enveloped sound, the envelope value
\* at the frame's index
Buffer(name, stereo) ==
    [sound   |-> name,
     returns |-> generated(name),
     stereo  |-> stereo,
     scaled  |-> <<Trunc(stereo[1] * SampleScale, Unit),
                   Trunc(stereo[2] * SampleScale, Unit)>>,
     samples |-> <<astype_int16(Trunc(stereo[1] * SampleScale, Unit)),
                   astype_int16(Trunc(stereo[2] * SampleScale, Unit))>>,
     shaped  |-> FALSE]

Shaped(buffer, i, n, env) ==
    [sound   |-> buffer.sound,
     returns |-> buffer.returns,
     stereo  |-> buffer.stereo,
     scaled  |-> buffer.scaled,
     samples |-> buffer.samples,
     shaped  |-> TRUE,
     at      |-> i,
     last    |-> n - 1,
     envelope |-> env]

\* the generators of SoundManager, by the name of what they generate
Generators ==
    {"menu", "hacking", "tense", "success_music", "server_room", "keyboard",
     "static", "success", "failure", "error", "beep", "glitch", "download",
     "decrypt"}

\* one frame of the buffer a generator builds
created(buffer) ==
    /\ variant = "wave"
    /\ pc = "new"
    /\ pc' = "made"
    /\ returned' = buffer
    /\ UNCHANGED <<variant, store, missions, gameVars, engineVars, clock, ret,
                   lookups, trail, trail_start, decor, calls, mixer>>

_create_menu_music ==
    /\ mixer = "menu"
    /\ \E s1 \in Bipolar, s2 \in Bipolar, s3 \in Bipolar, k \in 0..Levels :
        LET bass == pct(20, s1)
            pad == pct(15, s2)
            arp == pct(10, s3)
            kick == pct(30, (k * Unit) \div Levels)
            audio == normalized(pct(70, bass + pad + arp) + pct(50, kick))
        IN  created(Buffer("menu", <<audio, audio>>))

_create_hacking_music ==
    /\ mixer = "hacking"
    /\ \E s1 \in Bipolar, s2 \in Bipolar, u \in Bipolar, glitch_mask \in BOOLEAN :
        LET bass == pct(25, s1)
            arp == pct(15, s2)
            glitch == IF glitch_mask THEN pct(10, u) ELSE 0
            audio == normalized(pct(80, bass + arp) + pct(30, glitch))
        IN  created(Buffer("hacking", <<audio, audio>>))

_create_tense_music ==
    /\ mixer = "tense"
    /\ \E s1 \in Bipolar, s2 \in Bipolar, s3 \in Bipolar, u \in Bipolar,
       k \in 0..Levels :
        LET drone == pct(10, s1) + pct(8, s2)
            pluck_env == (k * Unit) \div Levels
            pluck == times(pct(15, pluck_env), s3)
            noise == pct(5, u)
            audio == normalized(pct(70, drone + pluck + noise))
        IN  created(Buffer("tense", <<audio, audio>>))

_create_success_music ==
    /\ mixer = "success_music"
    /\ \E s1 \in Bipolar, u \in Bipolar, sparkle_mask \in BOOLEAN,
       k \in 0..Levels, f \in 0..Levels :
        LET env == times((k * Unit) \div Levels, (k * Unit) \div Levels)
            note == times(pct(30, env), s1)
            sparkle == IF sparkle_mask THEN pct(50, pct(10, u)) ELSE 0
            fade_out == (f * Unit) \div Levels
            audio == normalized(times(note + sparkle, fade_out))
        IN  created(Buffer("success_music", <<audio, audio>>))

\* hum + fan + disk, halved and clipped, for every value of the four sines
server_room_audio ==
    {normalized(pct(50, pct(2, s1) + times(pct(50, Unit + s2), pct(1, s3))
                        + disk)) :
         s1 \in Bipolar, s2 \in Bipolar, s3 \in Bipolar,
         disk \in {0} \cup {pct(2, s4) : s4 \in Bipolar}}

_create_server_room_ambient ==
    /\ mixer = "server_room"
    /\ \E audio \in server_room_audio, u1 \in Bipolar, u2 \in Bipolar :
        LET left == pct(90, audio) + pct(10, u1)
            right == pct(90, audio) + pct(10, u2)
        IN  created(Buffer("server_room", <<left, right>>))

_create_keyboard_sound ==
    /\ mixer = "keyboard"
    /\ \E press_len \in {MinPressLen, MaxPressLen}, s \in Bipolar, u \in Bipolar,
       volume \in {10, 30}, pressed \in BOOLEAN :
        LET attack == Trunc(press_len * 2, 10)
            release == Trunc(press_len * 3, 10)
        IN  \E i \in Indices(press_len, attack, release) :
                LET tone == pct(20, s)
                    env == envelope(press_len, attack, release, i)
                    key == IF pressed THEN pct(volume, times(tone, env)) ELSE 0
                    noise == pct(2, u)
                    audio == normalized(pct(80, key) + pct(20, noise))
                IN  created(Shaped(Buffer("keyboard",
                                          <<audio, pct(90, audio)>>),
                                   i, press_len, env))

_create_static_sound ==
    /\ mixer = "static"
    /\ \E u \in Bipolar, p1 \in Bipolar, p2 \in Bipolar, s \in Bipolar :
        LET filtered == pct(50, u) + pct(30, p1) + pct(20, p2)
            env == pct(50, Unit + s)
            noise == normalized(times(filtered, env))
        IN  created(Buffer("static", <<noise, pct(95, noise)>>))

_create_success_sound ==
    /\ mixer = "success"
    /\ LET n == n_samples(600)
           attack == n_samples(50)
           release == n_samples(300)
       IN  \E s1 \in Bipolar, s2 \in Bipolar, s3 \in Bipolar,
              i \in Indices(n, attack, release) :
               LET env == envelope(n, attack, release, i)
                   chord == pct(20, s1) + pct(15, s2) + pct(15, s3)
                   audio == normalized(times(chord, env))
               IN  created(Shaped(Buffer("success",
                                         <<audio, pct(95, audio)>>), i, n, env))

_create_failure_sound ==
    /\ mixer = "failure"
    /\ LET n == n_samples(800)
           attack == n_samples(50)
           decay == n_samples(100)
           release == n_samples(300)
       IN  \E s1 \in Bipolar, s2 \in Bipolar, s3 \in Bipolar, u \in Bipolar,
              i \in Indices(n, attack, release) \cup {attack + decay - 1} :
               LET env == failure_envelope(n, attack, decay, release, i)
                   noise == times(pct(15, u), linspace(Unit, Unit \div 5, n, i))
                   mix == pct(20, s1) + pct(20, s2) + pct(10, s3) + noise
                   audio == normalized(times(mix, env))
               IN  created(Shaped(Buffer("failure",
                                         <<audio, pct(90, audio)>>), i, n, env))

_create_error_sound ==
    /\ mixer = "error"
    /\ LET n == n_samples(300)
           attack == n_samples(50)
           release == n_samples(150)
       IN  \E s \in Bipolar, i \in Indices(n, attack, release) :
               LET env == envelope(n, attack, release, i)
                   audio == normalized(times(pct(40, s), env))
               IN  created(Shaped(Buffer("error",
                                         <<audio, pct(90, audio)>>), i, n, env))

_create_beep ==
    /\ mixer = "beep"
    /\ \E s \in Bipolar :
        LET tone == pct(50, s)
        IN  created(Buffer("beep", <<tone, tone>>))

\* samples are written as integers; the except branch falls back to a beep
_create_glitch ==
    /\ mixer = "glitch"
    /\ \E u \in Bipolar, hit \in BOOLEAN :
        LET sample == IF hit THEN clip(Trunc(u * SampleScale, Unit),
                                       0 - SampleScale, SampleScale - 1)
                      ELSE 0
        IN  created([Buffer("glitch", <<0, 0>>)
                         EXCEPT !.scaled = <<sample, sample>>,
                                !.samples = <<astype_int16(sample),
                                              astype_int16(sample)>>])

\* Sound.set_volume returns None, and that is what the generator returns
_create_download_sound ==
    /\ mixer = "download"
    /\ \E s \in Bipolar, u \in Bipolar, noise_mask \in BOOLEAN :
        LET noise == IF noise_mask THEN pct(10, u) ELSE 0
            tone == clip(pct(30, s) + noise, 0 - Unit, Unit)
        IN  created(Buffer("download", <<tone, tone>>))

_create_decrypt_sound ==
    /\ mixer = "decrypt"
    /\ \E s \in Bipolar, u \in Bipolar, noise_mask \in BOOLEAN :
        LET tone == IF noise_mask THEN u ELSE pct(40, s)
        IN  created(Buffer("decrypt", <<tone, tone>>))

\* ------------------------------------------------------------ specification
\* After GameEngine.__init__ of either file.
Init ==
    /\ variant \in {"main", "engine"}
    /\ missions \in fetch_all_missions
    /\ selected_index = 0
    /\ state = "menu"
    /\ running = TRUE
    /\ current_mission = None
    /\ loading_animation = None
    /\ muted = FALSE
    /\ loading_counter = 0
    /\ mission_timer = 0
    /\ mission_outcome = "None"
    /\ clock = 0
    /\ pc = "run"
    /\ ret = "events"
    /\ lookups = {}
    /\ trail = <<>>
    /\ trail_start = 0
    /\ decor = None
    /\ calls = 0
    /\ returned = None
    /\ store = None
    /\ mixer = None

KeyDown == \E event \in Events : handle_events(event)
ConfirmExit == \E event \in Events : confirm_exit(event)
MissionStart == \E event \in Events : show_mission_start(event)
EngineKeyDown == \E event \in Events : engine_handle_events(event)

Next ==
    \/ KeyDown
    \/ ConfirmExit
    \/ confirm_exit_return
    \/ MissionStart
    \/ show_mission_start_return
    \/ run
    \/ EngineKeyDown
    \/ engine_update
    \/ Tick

Spec == Init /\ [][Next]_vars

\* The run loops keep executing passes and the clock keeps advancing; the
\* mission table holds the ids up to LiveMaxId.
LiveInit == Init /\ \A i \in 1..Len(missions) : missions[i].id <= LiveMaxId
LiveSpec ==
    /\ LiveInit
    /\ [][Next]_vars
    /\ WF_vars(run)
    /\ WF_vars(engine_update)
    /\ WF_vars(Tick)

\* The type tags of the mission table, and one in mixed case.
AnimTypes == {MissionTypes[i] : i \in 1..Len(MissionTypes)} \cup {"Download"}

\* One animation: the mission whose type tag selects it (None for a plain
\* LoadingAnimation) is drawn first.
InitAnim ==
    /\ variant = "anim"
    /\ current_mission \in
           {None} \cup {Some([id |-> 1, type |-> t]) : t \in AnimTypes}
    /\ loading_animation = None
    /\ missions = <<>>
    /\ selected_index = 0
    /\ state = "loading"
    /\ running = TRUE
    /\ muted = FALSE
    /\ loading_counter = 0
    /\ mission_timer = 0
    /\ mission_outcome = "None"
    /\ clock = 0
    /\ pc = "new"
    /\ ret = "events"
    /\ lookups = {}
    /\ trail = <<>>
    /\ trail_start = 0
    /\ decor = None
    /\ calls = 0
    /\ returned = None
    /\ store = None
    /\ mixer = None

NextAnim ==
    \/ anim_construct
    \/ anim_start
    \/ anim_update
    \/ anim_clock

SpecAnim == InitAnim /\ [][NextAnim]_vars

\* One SoundManager after __init__.
InitSound ==
    /\ variant = "sound"
    /\ mixer = SoundManager
    /\ muted = FALSE
    /\ missions = <<>>
    /\ selected_index = 0
    /\ state = "menu"
    /\ running = TRUE
    /\ current_mission = None
    /\ loading_animation = None
    /\ loading_counter = 0
    /\ mission_timer = 0
    /\ mission_outcome = "None"
    /\ clock = 0
    /\ pc = "run"
    /\ ret = "events"
    /\ lookups = {}
    /\ trail = <<>>
    /\ trail_start = 0
    /\ decor = None
    /\ calls = 0
    /\ returned = None
    /\ store = None

Play ==
    \E name \in SoundNames, volume \in VolumeArgs, loop \in BOOLEAN,
       ok \in BOOLEAN : play(name, volume, loop, ok)
ChannelEnds == \E c \in LowChannels : channel_ends(c)

NextSound ==
    \/ Play
    \/ SoundManager_toggle_mute
    \/ ChannelEnds

SpecSound == InitSound /\ [][NextSound]_vars

\* The music calls on one SoundManager.
PlayMusic ==
    \E track_name \in TrackNames, fade_in \in Fades,
       fails \in {"no", "play", "fade"} : play_music(track_name, fade_in, fails)
StopMusic == \E fade_out \in Fades : stop_music(fade_out)

NextMusic ==
    \/ PlayMusic
    \/ StopMusic
    \/ SoundManager_toggle_mute
    \/ ChannelEnds

SpecMusic == InitSound /\ [][NextMusic]_vars

\* An empty sound table (self.sounds = {}) and some files on disk.
InitLoad ==
    /\ variant = "load"
    /\ mixer \in {[sounds |-> [name \in LoadNames |-> Unregistered],
                    files |-> files] : files \in [LoadNames -> FileStates]}
    /\ muted = FALSE
    /\ missions = <<>>
    /\ selected_index = 0
    /\ state = "menu"
    /\ running = TRUE
    /\ current_mission = None
    /\ loading_animation = None
    /\ loading_counter = 0
    /\ mission_timer = 0
    /\ mission_outcome = "None"
    /\ clock = 0
    /\ pc = "run"
    /\ ret = "events"
    /\ lookups = {}
    /\ trail = <<>>
    /\ trail_start = 0
    /\ decor = None
    /\ calls = 0
    /\ returned = None
    /\ store = None

NextLoad == \E name \in LoadNames, default \in Defaults : load_sound(name, default)

SpecLoad == InitLoad /\ [][NextLoad]_vars

\* A GameEngine about to be built, and the database it will read.
InitFetch ==
    /\ variant = "fetch"
    /\ store \in {[fault |-> f, ids |-> S] : f \in Faults, S \in SUBSET (1..MaxId)}
    /\ pc = "new"
    /\ missions = <<>>
    /\ selected_index = 0
    /\ state = "menu"
    /\ running = TRUE
    /\ current_mission = None
    /\ loading_animation = None
    /\ muted = FALSE
    /\ loading_counter = 0
    /\ mission_timer = 0
    /\ mission_outcome = "None"
    /\ clock = 0
    /\ ret = "events"
    /\ lookups = {}
    /\ trail = <<>>
    /\ trail_start = 0
    /\ decor = None
    /\ calls = 0
    /\ returned = None
    /\ mixer = None

NextFetch == GameEngine_init

SpecFetch == InitFetch /\ [][NextFetch]_vars

\* A SoundManager about to run one of its generators.
InitWave ==
    /\ variant = "wave"
    /\ store = None
    /\ pc = "new"
    /\ missions = <<>>
    /\ selected_index = 0
    /\ state = "menu"
    /\ running = TRUE
    /\ current_mission = None
    /\ loading_animation = None
    /\ muted = FALSE
    /\ loading_counter = 0
    /\ mission_timer = 0
    /\ mission_outcome = "None"
    /\ clock = 0
    /\ ret = "events"
    /\ lookups = {}
    /\ trail = <<>>
    /\ trail_start = 0
    /\ decor = None
    /\ calls = 0
    /\ returned = None
    /\ mixer \in Generators

NextWave ==
    \/ _create_menu_music
    \/ _create_hacking_music
    \/ _create_tense_music
    \/ _create_success_music
    \/ _create_server_room_ambient
    \/ _create_keyboard_sound
    \/ _create_static_sound
    \/ _create_success_sound
    \/ _create_failure_sound
    \/ _create_error_sound
    \/ _create_beep
    \/ _create_glitch
    \/ _create_download_sound
    \/ _create_decrypt_sound

SpecWave == InitWave /\ [][NextWave]_vars

\* ------------------------------------------------------------------ claims
nMissions == Len(missions)
UpDown == {"K_UP", "K_DOWN"}
\* One KEYDOWN of `key` handled by the handle_events of either engine.
KeyDownStep(key) == handle_events(key) \/ engine_handle_events(key)

\* C1: with a non-empty mission list, selected_index is an integer in
\* [0, len(missions) - 1] in every reachable state of both engines.
C1_SelectedIndexInRange ==
    missions # <<>> =>
        /\ selected_index \in Int
        /\ 0 <= selected_index
        /\ selected_index <= Len(missions) - 1

\* C1 witness: an up key-down at index 0 has wrapped to the last mission.
C1_Witness ==
    /\ nMissions >= 2
    /\ trail = <<"K_UP">>
    /\ trail_start = 0
    /\ selected_index = nMissions - 1

\* C2: in MENU with n >= 1 missions, a down key-down sets selected_index to
\* (i + 1) mod n (0 after the last index), an up key-down to (i - 1) mod n
\* (the last index after 0), and nothing else of the screen state changes.
C2_UpDownWrap ==
    [][\A key \in UpDown :
          (state = "menu" /\ nMissions >= 1 /\ KeyDownStep(key)) =>
              /\ selected_index' =
                     IF key = "K_DOWN"
                     THEN (IF selected_index = nMissions - 1 THEN 0
                           ELSE selected_index + 1)
                     ELSE (IF selected_index = 0 THEN nMissions - 1
                           ELSE selected_index - 1)
              /\ UNCHANGED <<missions, state, running, current_mission,
                             loading_animation, muted, engineVars, pc>>]_vars

\* C2 witness: two missions, start at 0, down gives 1 and down again gives 0.
C2_Witness ==
    /\ nMissions = 2
    /\ trail = <<"K_DOWN", "K_DOWN">>
    /\ trail_start = 0
    /\ selected_index = 0

\* C3: n downs, n ups, a down then an up, and an up then a down each return
\* selected_index to the value it had before them.
C3_WrapReturns ==
    (nMissions >= 1 /\ trail # <<>>) =>
        /\ (Homogeneous(trail) /\ Len(trail) = nMissions) => selected_index = trail_start
        /\ (trail \in {<<"K_DOWN", "K_UP">>, <<"K_UP", "K_DOWN">>})
               => selected_index = trail_start

\* C3 witness: three missions, three ups from index 2 end at index 2.
C3_Witness ==
    /\ nMissions = 3
    /\ trail = <<"K_UP", "K_UP", "K_UP">>
    /\ trail_start = 2
    /\ selected_index = 2

\* C4: with an empty mission list an up, down or confirm key-down in MENU
\* raises nothing and leaves selected_index and the MENU state as they are.
C4_EmptyListNoOp ==
    [][\A key \in UpDown \cup {"K_RETURN"} :
          (state = "menu" /\ nMissions = 0 /\ KeyDownStep(key)) =>
              /\ pc' # "crashed"
              /\ selected_index' = selected_index
              /\ state' = "menu"]_vars

\* C5: in main.py every read missions[k] has 0 <= k < len(missions), and the
\* first index draw_mission_list reads from is not negative.
C5_LookupsInRange ==
    variant = "main" =>
        /\ \A k \in lookups : 0 <= k /\ k < Len(missions)
        /\ start_index(selected_index, Len(missions)) >= 0

\* C5 witness: four missions, the last one selected, the window 1..3 drawn.
C5_Witness ==
    /\ variant = "main"
    /\ nMissions = 4
    /\ selected_index = 3
    /\ lookups = {1, 2, 3}

\* The animation class and duration the type tag of mission m selects.
ExpectedClass(m) ==
    IF m.type \in {"download", "DOWNLOAD"} THEN "DownloadAnimation"
    ELSE "HackingAnimation"
ExpectedDuration(m) ==
    IF m.type \in {"download", "DOWNLOAD"} THEN DownloadDuration
    ELSE HackingDuration

\* C6: in main.py a confirm key-down in MENU with a non-empty list moves to
\* LOADING with current_mission = missions[selected_index] and a freshly
\* started animation (progress 0, not complete, start_time = now) of the
\* variant the mission's type tag selects; selected_index is unchanged.
C6_ConfirmStartsLoading ==
    [][(state = "menu" /\ nMissions >= 1 /\ handle_events("K_RETURN")) =>
          LET m == missions[selected_index + 1]
          IN  /\ state' = "loading"
              /\ current_mission' = Some(m)
              /\ loading_animation' # None
              /\ loading_animation'[1].progress.num = 0
              /\ loading_animation'[1].complete = FALSE
              /\ loading_animation'[1].start_time = clock
              /\ loading_animation'[1].cls = ExpectedClass(m)
              /\ loading_animation'[1].duration = ExpectedDuration(m)
              /\ selected_index' = selected_index]_vars

\* C6 witness: the mission typed "DOWNLOAD", not first in the list, has just
\* been confirmed at a clock reading after 0.
C6_Witness ==
    /\ variant = "main"
    /\ state = "loading"
    /\ selected_index > 0
    /\ clock > 0
    /\ lookups = {selected_index}
    /\ current_mission = Some(missions[selected_index + 1])
    /\ missions[selected_index + 1].type = "DOWNLOAD"
    /\ loading_animation # None
    /\ loading_animation[1].cls = "DownloadAnimation"
    /\ loading_animation[1].start_time = clock

C8_LeavesLoadingExactly ==
    [][(variant = "main" /\ state = "loading") =>
          ((state' = "menu" /\ loading_animation' = None)
             <=> \/ \E key \in Keys \ {"K_ESCAPE"} : handle_events(key)
                 \/ run /\ update(loading_animation[1], clock).complete)]_vars

\* C9: while passes of the run loop keep being executed and the clock keeps
\* advancing, a game in LOADING whose run loop polls the events leaves
\* LOADING: main.py returns to MENU, engine.py reaches RESULT (or the event
\* polling has left the run loop: a dialog, an exit).
C9_LoadingEnds ==
    /\ (variant = "main" /\ state = "loading" /\ pc = "run")
           ~> (state = "menu" \/ pc # "run")
    /\ (variant = "engine" /\ state = "loading" /\ pc = "run")
           ~> (state = "result" \/ pc # "run")

\* C9 witness: main.py left LOADING because update reported complete (the
\* mission-start prompt was opened from the update of the run loop).
C9_Witness ==
    /\ variant = "main"
    /\ state = "menu"
    /\ pc = "mission_start"
    /\ ret = "draw"
    /\ current_mission # None
    /\ clock >= HackingDuration

\* C10: a cancel key-down handled in MENU, LOADING, RESULT or the
\* mission-start prompt opens the exit-confirmation dialog and does not stop
\* the run loop by itself.
C10_EscOpensDialog ==
    [][(\/ handle_events("K_ESCAPE")
        \/ show_mission_start("K_ESCAPE")
        \/ engine_handle_events("K_ESCAPE"))
          => (pc' = "confirm_exit" /\ running' = running)]_vars

\* C11: in main.py the cancel key-down opens the dialog, the keys other than
\* Y and N leave it open, N closes it and handle_events goes on; none of
\* these steps changes running, the screen state, selected_index,
\* current_mission, the loading animation or the muted flag.
C11_DialogNoKeepsState ==
    [][/\ handle_events("K_ESCAPE")
              => (pc' = "confirm_exit" /\ UNCHANGED gameVars)
       /\ \A key \in Keys \ {"K_y", "K_n"} :
              (pc = "confirm_exit" /\ confirm_exit(key))
                  => (pc' = "confirm_exit" /\ UNCHANGED gameVars)
       /\ (pc = "confirm_exit" /\ confirm_exit("K_n"))
              => (pc' = "confirm_exit_done" /\ UNCHANGED gameVars)
       /\ confirm_exit_return
              => (pc' = "run" /\ UNCHANGED gameVars)]_vars

\* C11 witness: the dialog, opened while a muted game was loading a mission
\* that is not the first, has just been answered no.
C11_Witness ==
    /\ variant = "main"
    /\ pc = "confirm_exit_done"
    /\ state = "loading"
    /\ loading_animation # None
    /\ running
    /\ muted
    /\ selected_index > 0

\* C12: in engine.py the outcome is success or failure whenever the state is
\* RESULT; in RESULT a confirm or cancel key-down goes to MENU, and a tick of
\* update, any other key-down and the window-close event leave the state
\* RESULT.
C12_ResultUntilConfirm ==
    /\ [](state = "result" => mission_outcome \in {"success", "failure"})
    /\ [][(variant = "engine" /\ state = "result") =>
              /\ \A key \in {"K_RETURN", "K_ESCAPE"} :
                     engine_handle_events(key) => state' = "menu"
              /\ \A event \in Events \ {"K_RETURN", "K_ESCAPE"} :
                     engine_handle_events(event) => state' = "result"
              /\ engine_update => state' = "result"
              /\ state' \in {"result", "menu"}]_vars

\* C12 witness: RESULT is shown with the outcome failure.
C12_Witness ==
    /\ variant = "engine"
    /\ state = "result"
    /\ mission_outcome = "failure"
    /\ mission_timer = MissionDuration

\* The animation object of the "anim" behaviours, and fractions compared.
theAnim == loading_animation[1]
FracLeq(p, q) == p.num * q.den <= q.num * p.den
\* The call made by the step is update() on an animation that is / is not
\* complete yet.
UpdateCall == anim_update
UpdateBeforeComplete == anim_update /\ ~theAnim.complete
UpdateAfterComplete == anim_update /\ theAnim.complete

\* C13: every update() call on a started animation, at a clock reading not
\* before the one of the previous call, leaves progress at least what it was,
\* and leaves complete true if it was true.
C13_ProgressMonotone ==
    [][UpdateCall =>
           /\ FracLeq(theAnim.progress, loading_animation'[1].progress)
           /\ theAnim.complete => loading_animation'[1].complete]_vars

\* C13 witness: a second update() call, 500 ms after the start, has moved
\* the progress of a hacking animation on to 500/3500.
C13_Witness ==
    /\ variant = "anim"
    /\ loading_animation # None
    /\ calls = 2
    /\ theAnim.cls = "HackingAnimation"
    /\ theAnim.start_time = 0
    /\ clock = TickMs
    /\ theAnim.progress = [num |-> TickMs, den |-> HackingDuration]

\* C14: whenever an animation object exists (constructed, started, updated
\* any number of times) its progress lies in [0, 1] and complete is true
\* exactly when progress >= 1.
C14_ProgressInUnitInterval ==
    loading_animation # None =>
        /\ theAnim.progress.den > 0
        /\ 0 <= theAnim.progress.num
        /\ theAnim.progress.num <= theAnim.progress.den
        /\ theAnim.complete <=> (theAnim.progress.num >= theAnim.progress.den)

\* C14 witness: an update() call has left a download animation one
\* millisecond short of its end, progress 3999/4000 and not complete.
C14_Witness ==
    /\ variant = "anim"
    /\ loading_animation # None
    /\ theAnim.cls = "DownloadAnimation"
    /\ returned = Some(FALSE)
    /\ theAnim.progress.num = DownloadDuration - 1
    /\ theAnim.progress.den = DownloadDuration
    /\ ~theAnim.complete

\* C15: an update() call before completion, e ms after the start of an
\* animation of duration D, sets progress to min(1, e / D) and returns true
\* exactly when e >= D; the download animation has D = 4000.
C15_ProgressIsElapsedOverDuration ==
    [][UpdateBeforeComplete =>
           LET e == clock - theAnim.start_time
               D == theAnim.duration
               p == loading_animation'[1].progress
           IN  /\ p.num * D = Min(e, D) * p.den
               /\ returned' = Some(e >= D)
               /\ loading_animation'[1].complete = (e >= D)
               /\ theAnim.cls = "DownloadAnimation" => D = 4000]_vars

\* C15 witness: the first update() call on a download animation, exactly
\* 4000 ms after its start, has returned true.
C15_Witness ==
    /\ variant = "anim"
    /\ loading_animation # None
    /\ theAnim.cls = "DownloadAnimation"
    /\ calls = 1
    /\ clock - theAnim.start_time = 4000
    /\ theAnim.start_time > 0
    /\ returned = Some(TRUE)

\* C16: an update() call on a complete animation returns true and changes
\* nothing: neither progress, complete, start_time and duration nor the
\* fields of the subclass.
C16_UpdateAfterCompleteNoOp ==
    [][UpdateAfterComplete =>
           /\ returned' = Some(TRUE)
           /\ UNCHANGED <<loading_animation, decor>>]_vars

\* C17: the factory builds the download animation (4000 ms) for the tag
\* "download" in any letter case and the hacking animation (3500 ms) for
\* "hack", for every other tag and for a mission without a type field; the
\* construction always succeeds.
C17_FactoryByTypeTag ==
    (variant = "anim" /\ current_mission # None) =>
        /\ pc # "crashed"
        /\ pc # "new" =>
               LET tag == current_mission[1].type
               IN  IF tag \in {"download", "DOWNLOAD", "Download"}
                   THEN /\ theAnim.cls = "DownloadAnimation"
                        /\ theAnim.duration = 4000
                   ELSE /\ theAnim.cls = "HackingAnimation"
                        /\ theAnim.duration = 3500

\* C17 witness: the factory has built the download animation for a mission
\* whose type tag is written in capitals.
C17_Witness ==
    /\ variant = "anim"
    /\ loading_animation # None
    /\ pc = "constructed"
    /\ current_mission # None
    /\ current_mission[1].type = "DOWNLOAD"
    /\ theAnim.cls = "DownloadAnimation"

\* The volume arguments that are numbers or None, and the mixer with every
\* channel busy.
GoodVolumes == {"None", "0.5"}
AllBusy == find_channel(mixer) = None
Unchanged2(c) == mixer'.low[c] = mixer.low[c]

\* C18: every play call made while the manager is muted, with a registered
\* or an unregistered name, returns None, leaves the sound table, every
\* channel and the muted flag as they were, and does not raise.
C18_MutedPlayDoesNothing ==
    [][(muted /\ Play) =>
           /\ returned' = Some("None")
           /\ UNCHANGED <<mixer, muted>>
           /\ pc' = "run"]_vars

\* C18 witness: play has returned None to a caller of the muted manager
\* while a channel was still playing.
C18_Witness ==
    /\ variant = "sound"
    /\ muted
    /\ returned = Some("None")
    /\ mixer.low[0].playing # None

\* What C19 says of the step that is the call play(name, volume, loop) in
\* which the mixer calls go through (ok) or fail.
SilentFailure(name, volume, loop, ok) ==
    /\ pc' = "run"
    /\ name = "nosuch" =>
           /\ returned' = Some("None")
           /\ UNCHANGED <<mixer, muted>>
    /\ (~ok \/ volume = "'loud'") => returned' = Some("None")

\* C19: no play call raises, whatever its name, volume and loop; play with
\* a name that is not in the sound table returns None and changes nothing;
\* and a play call whose volume is not a number, or in which a mixer call
\* fails, returns None.
C19_PlayNeverRaises ==
    [][\A name \in SoundNames, volume \in VolumeArgs, loop \in BOOLEAN,
          ok \in BOOLEAN :
           SilentFailure(name, volume, loop, ok)
               \/ ~play(name, volume, loop, ok)]_vars

\* C19 witness: the unmuted manager has returned None from play although
\* every channel is idle: the name was not registered, or the call failed.
C19_Witness ==
    /\ variant = "sound"
    /\ ~muted
    /\ returned = Some("None")
    /\ find_channel(mixer) = Some(0)
    /\ mixer.high = 0

\* C20 as stated: an unmuted play of a registered sound while every channel
\* is busy returns None and leaves every channel as it was.
C20_AllBusyReturnsNone ==
    [][\A volume \in GoodVolumes, loop \in BOOLEAN, ok \in BOOLEAN :
           (~muted /\ AllBusy /\ play("select", volume, loop, ok)) =>
               /\ returned' = Some("None")
               /\ mixer'.low = mixer.low
               /\ mixer'.high = mixer.high]_vars

\* C20: an unmuted play of a registered sound while every channel is busy
\* does not return None unless a mixer call fails: it plays the sound on
\* channel 2 in place of what that channel was playing and returns that
\* channel; the other channels are left as they were.
C20_AllBusyTakesChannel2 ==
    [][\A volume \in GoodVolumes, loop \in BOOLEAN :
           (~muted /\ AllBusy /\ play("select", volume, loop, TRUE)) =>
               /\ returned' = Some("Channel(2)")
               /\ mixer'.low[2].playing =
                      Some([name |-> "select", loop |-> loop])
               /\ Unchanged2(0)
               /\ Unchanged2(1)
               /\ mixer'.high = mixer.high]_vars

\* C20 witness: with the unmuted mixer's sixteen channels busy, the three
\* low ones looping, the last play call has returned channel 2.
C20_Witness ==
    /\ variant = "sound"
    /\ ~muted
    /\ AllBusy
    /\ mixer.high = NumChannels - 3
    /\ \A c \in 0..2 : mixer.low[c].playing[1].loop
    /\ returned = Some("Channel(2)")

\* The track the music channel is playing, if it plays one.
MusicPlaying == mixer.low[MusicChannel].playing
KnownTracks == TrackNames \cap DOMAIN music_tracks

\* C21: at most one music track is active: while a track is current the
\* music channel is idle or plays that track, and no other channel plays a
\* track.  A play_music(t) in which no mixer call fails, made unmuted with
\* a known t, leaves the music channel playing t in place of what it played,
\* current_music = t and returns true; play_music of an unknown track
\* returns false and leaves the manager as it was.
C21_OneMusicTrack ==
    [][/\ mixer'.current_music # None =>
              \/ mixer'.low[MusicChannel].playing = None
              \/ mixer'.low[MusicChannel].playing[1].name
                     = mixer'.current_music[1]
       /\ \A c \in LowChannels \ {MusicChannel} : mixer'.low[c].playing = None
       /\ \A t \in KnownTracks, fade_in \in Fades :
              (~muted /\ play_music(t, fade_in, "no")) =>
                  /\ mixer'.current_music = Some(t)
                  /\ mixer'.low[MusicChannel].playing =
                         Some([name |-> t, loop |-> music_tracks[t].loop])
                  /\ returned' = Some("True")
       /\ \A fade_in \in Fades, fails \in {"no", "play", "fade"} :
              play_music("nosuch", fade_in, fails) =>
                  /\ returned' = Some("False")
                  /\ UNCHANGED <<mixer, muted>>]_vars

\* C21 witness: play_music has returned true for the track "success" and
\* the music channel plays it, after "menu" had been played.
C21_Witness ==
    /\ variant = "sound"
    /\ mixer.current_music = Some("success")
    /\ MusicPlaying = Some([name |-> "success", loop |-> FALSE])
    /\ mixer.music_sounds["menu"] = 0
    /\ returned = Some("True")

\* C22: in every state of the manager, toggle_mute flips the muted flag and
\* returns the new flag, and a second toggle_mute brings back the flag, the
\* music, sfx and ambient levels and the volume of every channel.
C22_ToggleTwiceRestores ==
    variant = "sound" =>
        LET once == toggled(muted, mixer)
            twice == toggled(once.muted, once.mixer)
        IN  /\ once.muted = ~muted
            /\ once.value = ~muted
            /\ twice.muted = muted
            /\ twice.value = muted
            /\ twice.mixer.music_volume = mixer.music_volume
            /\ twice.mixer.sfx_volume = mixer.sfx_volume
            /\ twice.mixer.ambient_volume = mixer.ambient_volume
            /\ \A c \in LowChannels :
                   twice.mixer.low[c].volume = mixer.low[c].volume

\* What C23 says of the step that is the call load_sound(name, default).
Resolved(name, default) ==
    LET file == mixer.files[name]
        buffer == IF file = "wav" THEN FromFile ELSE default
    IN  /\ pc' = "run"
        /\ returned' = Some(buffer)
        /\ buffer # "None" => mixer'.sounds[name] = buffer
        /\ buffer = "None" => mixer'.sounds[name] = mixer.sounds[name]
        /\ \A other \in LoadNames \ {name} :
               mixer'.sounds[other] = mixer.sounds[other]
        /\ registered(mixer'.sounds, mixer'.files, name, default).sounds
               = mixer'.sounds

\* C23: load_sound(name, default) registers the buffer of the file of that
\* name when the file is there and loads, the default when the file is
\* absent or does not load, and nothing when there is neither; it never
\* raises; and the same call made again leaves the table as the first call
\* left it.
C23_LoadSoundPrecedence ==
    [][\A name \in LoadNames, default \in Defaults :
           Resolved(name, default) \/ ~load_sound(name, default)]_vars

\* C23 witness: "select" has a loadable file and is registered from it,
\* "confirm" has a file that does not load and is registered with the default
\* of the last call.
C23_Witness ==
    /\ variant = "load"
    /\ mixer.files["select"] = "wav"
    /\ mixer.sounds["select"] = FromFile
    /\ mixer.files["confirm"] = "corrupt"
    /\ mixer.sounds["confirm"] = "glitch"
    /\ returned = Some("glitch")

\* C24: building the engine never fails on the data source: when the
\* connection cannot be opened, the query fails or a row is unusable,
\* fetch_all_missions returns the empty list, and otherwise the missions in
\* ascending id order.
C24_FetchNeverPropagates ==
    [][GameEngine_init =>
           /\ pc' = "run"
           /\ store.fault # "none" => missions' = <<>>
           /\ store.fault = "none" =>
                  /\ Len(missions') = Cardinality(store.ids)
                  /\ \A i \in 1..Len(missions') : missions'[i].id \in store.ids
                  /\ \A i \in 1..(Len(missions') - 1) :
                         missions'[i].id < missions'[i + 1].id]_vars

\* C25: every sample of every generated buffer is within the signed 16-bit
\* range, and converting it to a 16-bit integer does not wrap it around.
C25_SamplesFitInt16 ==
    (variant = "wave" /\ pc = "made") =>
        \A c \in 1..2 :
            /\ returned.samples[c] = returned.scaled[c]
            /\ returned.samples[c] >= 0 - 32768
            /\ returned.samples[c] <= 32767

\* the loudest frame of the failure sound: both notes, the wobble and the
\* noise at full swing under a full envelope
C25_Witness ==
    /\ variant = "wave"
    /\ pc = "made"
    /\ returned.sound = "failure"
    /\ returned.stereo[1] >= (6 * Unit) \div 10
    /\ returned.samples[1] > 16384

\* C26: every generated sound effect is shaped by an attack/release envelope
\* that is 0 at the first and at the last sample of the buffer.
C26_EnvelopeZeroAtEdges ==
    (variant = "wave" /\ pc = "made") =>
        (returned.sound \in {"beep", "error", "success", "failure",
                             "download", "decrypt", "keyboard"} =>
             /\ returned.shaped
             /\ returned.at \in {0, returned.last} => returned.envelope = 0)

\* C28: on a SoundManager constructed with no sound file on disk, every name
\* setup_sounds registers is a key of the sound table, and an unmuted play
\* of it whose mixer calls go through returns a channel, never None.
C28_RegisteredEffectsPlay ==
    [][\A name \in setup_names \cap SoundNames :
           \/ muted
           \/ /\ name \in DOMAIN mixer.sounds
              /\ returned' # Some("None")
           \/ ~play(name, "None", FALSE, TRUE)]_vars

\* C27: in main.py there is a loading animation exactly while the state is
\* LOADING: it is created when MENU goes to LOADING and discarded when
\* LOADING goes back to MENU.
C27_AnimationIffLoading ==
    variant = "main" =>
        /\ (loading_animation # None) <=> (state = "loading")
        /\ state \in {"menu", "loading"}

\* C27 witness: the menu is back after a load, the mission still current,
\* the animation gone.
C27_Witness ==
    /\ variant = "main"
    /\ state = "menu"
    /\ current_mission # None
    /\ loading_animation = None
    /\ pc = "run"

\* C29: when draw_mission_list draws a list of n >= 1 missions with
\* selected_index in 0..n-1, the window [start_index, start_index +
\* visible_missions) starts at 0 or later and contains selected_index, and
\* the selected mission is among those read.
C29_WindowHoldsSelection ==
    [][\/ ~(variant = "main" /\ state = "menu" /\ nMissions >= 1
             /\ 0 <= selected_index /\ selected_index < nMissions)
       \/ LET s == start_index(selected_index, nMissions)
          IN  /\ s >= 0
              /\ s <= selected_index
              /\ selected_index < s + visible_missions
              /\ selected_index \in lookups'
              /\ \A k \in lookups' : s <= k /\ k < s + visible_missions
       \/ ~run]_vars

\* C29 witness: four missions, the third selected, the list scrolled by one.
C29_Witness ==
    /\ variant = "main"
    /\ state = "menu"
    /\ nMissions = 4
    /\ selected_index = 2
    /\ lookups = {1, 2, 3}

\* The keys main.py gives a meaning in the menu besides RETURN.
MenuKeys == {"K_UP", "K_DOWN", "K_m"}
SelectionAndMute == <<selected_index, muted>>

\* C30: in main.py selected_index and muted change only when a key-down is
\* handled in MENU; an up, down or mute key-down in LOADING leaves both as
\* they are and only ends the loading; the update and draw of a frame and
\* the passing of time change neither.
C30_OnlyMenuKeysChangeSelection ==
    [][variant = "main" =>
           /\ \/ SelectionAndMute' = SelectionAndMute
              \/ /\ state = "menu"
                 /\ \E key \in MenuKeys : handle_events(key)
           /\ \/ state # "loading"
              \/ \A key \in MenuKeys :
                     \/ /\ SelectionAndMute' = SelectionAndMute
                        /\ state' = "menu"
                        /\ loading_animation' = None
                     \/ ~handle_events(key)
           /\ \/ SelectionAndMute' = SelectionAndMute
              \/ ~(run \/ Tick)]_vars

\* C30 witness: a key-down has ended the loading of a mission that was
\* chosen after moving the selection and muting; both are as they were.
C30_Witness ==
    /\ variant = "main"
    /\ state = "menu"
    /\ pc = "mission_start"
    /\ ret = "events"
    /\ current_mission # None
    /\ selected_index = 1
    /\ muted

====
